---- MODULE Spec2Model ----
\* Model of the cascading user deletion workflow (deleteUser) of the
\* GoLightly02 API: lookup stage, best-effort filesystem cleanup and the
\* transactional database cleanup, with the failures each await can raise.
EXTENDS Integers, FiniteSets, Sequences, TLC

VARIABLES db, fs, outputPath, inv

vars == <<db, fs, outputPath, inv>>

\* ---------------------------------------------------------------- bounds
MaxUsers == 2
MaxMeds == 2
MaxAssets == 2

UserIds == 1..MaxUsers
MedIds == 1..MaxMeds
AssetIds == 1..MaxAssets
\* deleteUser invocations that can be in flight
Invs == {1, 2}

NULL == "null"

\* ------------------------------------------------------- paths and e-mail
\* path.join(dir, file) for a directory without a trailing separator
PathJoin(dir, file) == dir \o "/" \o file

ElevenLabsDir == "/el"
MedDir == "/med"
\* the value of process.env.PATH_MP3_OUTPUT when it is configured
PATH_MP3_OUTPUT == "/out"

AssetFilename(a) == "e" \o ToString(a) \o ".mp3"
MedFilename(m) == "m" \o ToString(m) \o ".mp3"
SoundFilePath == "/snd/s1.mp3"

\* An e-mail address is a sequence of one-character strings, so that
\* String.prototype.toLowerCase can be computed character by character.
Digits == <<"0", "1", "2", "3", "4", "5", "6", "7", "8", "9">>

\* Number -> String conversion of a template literal, for a non-negative
\* integer: its decimal digits
RECURSIVE DecimalDigits(_)
DecimalDigits(n) ==
  IF n < 10 THEN <<Digits[n + 1]>>
  ELSE DecimalDigits(n \div 10) \o <<Digits[(n % 10) + 1]>>

UpperCase ==
  <<"A", "B", "C", "D", "E", "F", "G", "H", "I", "J", "K", "L", "M",
    "N", "O", "P", "Q", "R", "S", "T", "U", "V", "W", "X", "Y", "Z">>
LowerCase ==
  <<"a", "b", "c", "d", "e", "f", "g", "h", "i", "j", "k", "l", "m",
    "n", "o", "p", "q", "r", "s", "t", "u", "v", "w", "x", "y", "z">>

LowerChar(c) ==
  IF \E k \in DOMAIN UpperCase : UpperCase[k] = c
  THEN LowerCase[CHOOSE k \in DOMAIN UpperCase : UpperCase[k] = c]
  ELSE c

\* email.toLowerCase()
ToLowerCase(email) == [k \in DOMAIN email |-> LowerChar(email[k])]

\* the address as one string
RECURSIVE Text(_)
Text(email) == IF email = <<>> THEN "" ELSE Head(email) \o Text(Tail(email))

\* an address as registration stores it: email.toLowerCase()
OriginalEmail(u) ==
  ToLowerCase(<<"U", "s", "e", "r">> \o DecimalDigits(u) \o <<"@", "x", ".", "i", "o">>)

BenevolentPrefix ==
  <<"B", "e", "n", "e", "v", "o", "l", "e", "n", "t", "U", "s", "e", "r">>
BenevolentDomain ==
  <<"@", "g", "o", "-", "l", "i", "g", "h", "t", "l", "y", ".", "l", "o", "v", "e">>

\* `BenevolentUser${userId}@go-lightly.love`
\* variant: the userId is not interpolated
BenevolentEmailNoId(userId) == BenevolentPrefix \o BenevolentDomain
BenevolentEmail(userId) ==
  BenevolentPrefix \o DecimalDigits(userId) \o BenevolentDomain

\* ------------------------------------------------------------- the store
\* Rows of the tables deleteUser touches.  A table keyed by id is a function
\* whose domain is the set of ids that have a row.
UserRow(u) ==
  [email |-> OriginalEmail(u), isAdmin |-> (u = 1),
   password |-> "hash" \o ToString(u),
   isEmailVerified |-> (u # MaxUsers),
   emailVerifiedAt |-> IF u # MaxUsers THEN "t" \o ToString(u) ELSE NULL]

\* meditation output file layout: a stored directory, no stored directory
\* (fallback to PATH_MP3_OUTPUT), or no filename at all
Layouts == {"stored", "fallback", "nofile"}

MedRow(vis, layout, m) ==
  [visibility |-> vis,
   filePath |-> IF layout = "stored" THEN MedDir ELSE NULL,
   filename |-> IF layout = "nofile" THEN NULL ELSE MedFilename(m)]

AssetRow(a) == [filePath |-> ElevenLabsDir, filename |-> AssetFilename(a)]

\* full path of an ElevenLabs file row (deleteUser step 5)
AssetFullPath(row) == PathJoin(row.filePath, row.filename)

\* full path of a meditation output file (deleteUser step 7); NULL when the
\* loop body skips the meditation
MedFullPath(row, envOutputPath) ==
  IF row.filename = NULL THEN NULL
  ELSE IF row.filePath # NULL THEN PathJoin(row.filePath, row.filename)
  ELSE IF envOutputPath = NULL THEN NULL
  ELSE PathJoin(envOutputPath, row.filename)

\* ------------------------------------------------------ store operations
Restrict(f, S) == [x \in S |-> f[x]]

\* User.findByPk(userId) returned a row
\* variant: the missing-user check is skipped
UserFoundAlways(d, userId) == TRUE
UserFound(d, userId) == userId \in DOMAIN d.users

\* ContractUsersMeditations.findAll({where: {userId}}) mapped to meditationId
\* variant: the query without the userId condition
OwnedOfAnyone(d, userId) == {c[2] : c \in d.owns}
OwnedMeditationIds(d, userId) == {c[2] : c \in {x \in d.owns : x[1] = userId}}

\* Meditation.findAll({where: {id in ids, visibility: "private"}}) mapped to id
\* variant: the query without the visibility condition
PrivateAll(d, ids) == ids \cap DOMAIN d.meds
PrivateMeditationIds(d, ids) == {m \in ids \cap DOMAIN d.meds : d.meds[m].visibility = "private"}

\* ContractMeditationsElevenLabsFiles.findAll({where: {meditationId in ids}})
\* collected into a Set of elevenLabsFileId
LinkedAssetIds(d, ids) == {c[2] : c \in {x \in d.medAssets : x[1] \in ids}}

\* ElevenLabsFiles.findAll({where: {id in ids}}) mapped to {id, fullPath}
AssetFilesToDelete(d, ids) ==
  {[id |-> a, fullPath |-> AssetFullPath(d.assets[a])] : a \in ids \cap DOMAIN d.assets}

\* Meditation.findAll({where: {id in ids}}): the ids of the rows found
MeditationsFound(d, ids) == ids \cap DOMAIN d.meds

\* ElevenLabsFiles.destroy({where: {id in ids}}); the source names a cascade
\* for the Meditation delete only, so association rows stay
DestroyAssets(d, ids) == [d EXCEPT !.assets = Restrict(@, DOMAIN @ \ ids)]

\* Meditation.destroy({where: {id in ids}}); the store cascades the delete to
\* ContractUsersMeditations, ContractMeditationsElevenLabsFiles and
\* ContractMeditationsSoundFiles
\* variant: the sound files linked to a deleted meditation are deleted too
DestroyMeditationsWithSounds(d, ids) ==
  [d EXCEPT !.meds = Restrict(@, DOMAIN @ \ ids),
            !.owns = {c \in @ : c[2] \notin ids},
            !.medAssets = {c \in @ : c[1] \notin ids},
            !.medSounds = {c \in @ : c[1] \notin ids},
            !.sounds = @ \ {c[2] : c \in {x \in d.medSounds : x[1] \in ids}}]
\* variant: the cascade removes every ownership row of the owners
DestroyMeditationsCascadeByOwner(d, ids) ==
  [d EXCEPT !.meds = Restrict(@, DOMAIN @ \ ids),
            !.owns = {c \in @ : c[1] \notin {x[1] : x \in {y \in d.owns : y[2] \in ids}}},
            !.medAssets = {c \in @ : c[1] \notin ids},
            !.medSounds = {c \in @ : c[1] \notin ids}]
\* variant: the delete does not cascade to the contract tables
DestroyMeditationsNoCascade(d, ids) ==
  [d EXCEPT !.meds = Restrict(@, DOMAIN @ \ ids)]
DestroyMeditations(d, ids) ==
  [d EXCEPT !.meds = Restrict(@, DOMAIN @ \ ids),
            !.owns = {c \in @ : c[2] \notin ids},
            !.medAssets = {c \in @ : c[1] \notin ids},
            !.medSounds = {c \in @ : c[1] \notin ids}]

\* number of rows Meditation.destroy removes
\* variant: the number of ids asked for
DestroyMeditationsCountRequested(d, ids) == Cardinality(ids)
DestroyMeditationsCount(d, ids) == Cardinality(ids \cap DOMAIN d.meds)

\* ContractUserMeditationsListen.destroy({where: {userId}})
\* variant: only the listen records on deleted meditations go
DestroyListensOnDeleted(d, userId) ==
  [d EXCEPT !.listens = {l \in @ : l.userId # userId \/ l.meditationId \in DOMAIN d.meds}]
DestroyListens(d, userId) == [d EXCEPT !.listens = {l \in @ : l.userId # userId}]

\* Queue.destroy({where: {userId}})
\* variant: the statement without the userId condition
DestroyQueueOfAnyone(d, userId) == [d EXCEPT !.queue = {}]
DestroyQueue(d, userId) == [d EXCEPT !.queue = {q \in @ : q.userId # userId}]

\* User.update({email, isAdmin: false}, {where: {id: userId}})
\* variant: the update leaves isAdmin as it is
AnonymizeUserKeepAdmin(d, userId) ==
  IF userId \in DOMAIN d.users
  THEN [d EXCEPT !.users[userId].email = BenevolentEmail(userId)]
  ELSE d
\* variant: the synthetic e-mail is built from the e-mail of the row
AnonymizeUserFromOldEmail(d, userId) ==
  IF userId \in DOMAIN d.users
  THEN [d EXCEPT !.users[userId].email = BenevolentPrefix \o @,
                 !.users[userId].isAdmin = FALSE]
  ELSE d
\* variant: the update also resets the e-mail verification
AnonymizeUserResetsVerification(d, userId) ==
  IF userId \in DOMAIN d.users
  THEN [d EXCEPT !.users[userId].email = BenevolentEmail(userId),
                 !.users[userId].isAdmin = FALSE,
                 !.users[userId].isEmailVerified = FALSE,
                 !.users[userId].emailVerifiedAt = NULL]
  ELSE d
AnonymizeUser(d, userId) ==
  IF userId \in DOMAIN d.users
  THEN [d EXCEPT !.users[userId].email = BenevolentEmail(userId),
                 !.users[userId].isAdmin = FALSE]
  ELSE d

\* User.destroy({where: {id: userId}})
DestroyUser(d, userId) == [d EXCEPT !.users = Restrict(@, DOMAIN @ \ {userId})]

\* The statements of steps 8-12 carry the transaction: they act on a working
\* copy (tx) that becomes the store at commit.
\* what the store holds once the transaction is rolled back / committed
\* variant: the writes of the transaction stay in the store
RollbackKeepsWrites(committed, working) == working
AfterRollback(committed, working) == committed
AfterCommit(committed, working) == working

\* ----------------------------------------------------------- filesystem
\* one pass of the exists-check / unlink loop over the paths; unlink throws
\* for the paths in failing.  Returns the files left on disk.
\* variant: a file that is not on disk ends the loop before any unlink
UnlinkAllAbortOnMissing(files, paths, failing) ==
  IF paths \subseteq files THEN files \ (paths \ failing) ELSE files
\* variant: the first unlink that throws ends the loop
UnlinkAllAbortOnFailure(files, paths, failing) ==
  IF failing # {} THEN files ELSE files \ paths
UnlinkAll(files, paths, failing) == files \ (paths \ failing)

\* the number of files the loop counts as deleted
\* variant: a missing file is counted as deleted
UnlinkCountAttempted(files, paths, failing) == Cardinality(paths \ failing)
UnlinkCount(files, paths, failing) == Cardinality((files \cap paths) \ failing)

\* ----------------------------------------------------------------- Init
AllMedFiles(meds) ==
  {MedFullPath(meds[m], PATH_MP3_OUTPUT) : m \in DOMAIN meds} \ {NULL}

InitDb(owner, vis, layout, links) ==
  [users |-> [u \in UserIds |-> UserRow(u)],
   meds |-> [m \in MedIds |-> MedRow(vis[m], layout[m], m)],
   owns |-> {<<owner[m], m>> : m \in MedIds},
   assets |-> [a \in AssetIds |-> AssetRow(a)],
   medAssets |-> links,
   sounds |-> {1},
   medSounds |-> {<<m, 1>> : m \in MedIds},
   listens |-> {[userId |-> u, meditationId |-> m, listenCount |-> 1, favorite |-> FALSE] :
                  u \in UserIds, m \in MedIds},
   queue |-> {[id |-> u, userId |-> u] : u \in UserIds}]

EmptyDb ==
  [users |-> <<>>, meds |-> <<>>, owns |-> {}, assets |-> <<>>, medAssets |-> {},
   sounds |-> {}, medSounds |-> {}, listens |-> {}, queue |-> {}]

\* DeleteUserResult
Result(userId, meditationsDeleted, elevenLabsFilesDeleted, benevolentUserCreated) ==
  [userId |-> userId, meditationsDeleted |-> meditationsDeleted,
   elevenLabsFilesDeleted |-> elevenLabsFilesDeleted,
   benevolentUserCreated |-> benevolentUserCreated]

NoResult == Result(0, 0, 0, FALSE)

\* what the endpoint has answered: the status, the message and, on success,
\* the fields of the result
NoResponse == [status |-> 0, message |-> "", hasResult |-> FALSE, result |-> NoResult]

IdleInv ==
  [pc |-> "idle", userId |-> 0, anon |-> FALSE,
   allUserMeditationIds |-> {}, userDeleteMeditationIdsArray |-> {},
   elevenLabsFileIdsArray |-> {},
   elevenLabsFilesDeletedCount |-> 0, meditationFilesDeletedCount |-> 0,
   meditationsDeletedCount |-> 0, benevolentUserCreated |-> FALSE,
   tx |-> EmptyDb, caught |-> NULL, error |-> NULL, result |-> NoResult,
   pre |-> [db |-> EmptyDb, fs |-> {}], touched |-> {}, txOpened |-> FALSE,
   unlinkFailed |-> {}, thrownAt |-> NULL,
   param |-> <<>>, called |-> FALSE, response |-> NoResponse]

\* association rows of the initial store: ElevenLabs file a was generated
\* for meditation a, and may be reused by meditation a + 1
OwnLinks == {c \in MedIds \X AssetIds : c[1] = c[2]}
ReuseLinks == {c \in MedIds \X AssetIds : c[1] = c[2] + 1}

\* every file the rows of the initial store name
InitFiles(d) ==
  {AssetFullPath(d.assets[a]) : a \in DOMAIN d.assets} \cup AllMedFiles(d.meds)

\* the files that may have been removed from disk by hand before the call
MayBeMissing == {AssetFullPath(AssetRow(1)), PathJoin(MedDir, MedFilename(MaxMeds))}

\* The store before the call.  Every user, meditation and ElevenLabs file has
\* a row.  The visibilities vary; user 1 owns every meditation but the last,
\* whose owner varies; the first meditation has any file layout, the others
\* a stored directory; PATH_MP3_OUTPUT, which is read only for a meditation
\* without stored directory, may be unset in that case.
Init ==
  /\ \E vis \in [MedIds -> {"public", "private"}], lastOwner \in UserIds,
        layout1 \in Layouts, links \in {{}, OwnLinks, OwnLinks \cup ReuseLinks} :
       /\ db = InitDb([m \in MedIds |-> IF m = MaxMeds THEN lastOwner ELSE 1], vis,
                      [m \in MedIds |-> IF m = 1 THEN layout1 ELSE "stored"], links)
       /\ outputPath \in (IF layout1 = "fallback" THEN {NULL, PATH_MP3_OUTPUT}
                          ELSE {PATH_MP3_OUTPUT})
  /\ \E missing \in SUBSET MayBeMissing :
       fs = (InitFiles(db) \ missing) \cup {SoundFilePath}
  /\ inv = [i \in Invs |-> IdleInv]

\* ------------------------------------------------------------ deleteUser
\* Every action runs from the resolution of one await to the next await.
Me(i) == inv[i]
Set(i, r) == inv' = [inv EXCEPT ![i] = r]

USER_NOT_FOUND == "USER_NOT_FOUND"
QueryError == "QueryError"
RollbackError == "RollbackError"
StepError(pc) == "StepError:" \o pc

LookupPcs == {"findUser", "findContracts", "findPrivate", "findELContracts",
              "findELFiles", "findMedFiles", "begin"}
TxPcs == {"destroyEL", "destroyMed", "destroyListen", "destroyQueue",
          "userRecord", "commit"}

\* the await that follows the lookup of the deletion targets (steps 4-7)
\* variant: an empty deletion target ends the call
AfterFilterEarlyReturn(del) == IF del # {} THEN "findELContracts" ELSE "done"
AfterFilter(del) == IF del # {} THEN "findELContracts" ELSE "begin"

\* the first statement of the transaction that is issued (steps 8-10)
\* variant: the user record is handled first
FirstTxStepUserFirst(elIds, del) == "userRecord"
FirstTxStep(elIds, del) ==
  IF elIds # {} THEN "destroyEL" ELSE IF del # {} THEN "destroyMed" ELSE "destroyListen"

\* deleteUser(userId, savePublicMeditationsAsBenevolentUser) is called
Start(i, userId, anon) ==
  /\ Me(i).pc = "idle"
  /\ Set(i, [IdleInv EXCEPT !.pc = "findUser", !.userId = userId, !.anon = anon,
                            !.called = TRUE,
                            !.pre = [db |-> db, fs |-> fs]])
  /\ UNCHANGED <<db, fs, outputPath>>

\* Step 1: validate user exists
ValidateUser(i) ==
  /\ Me(i).pc = "findUser"
  /\ IF UserFound(db, Me(i).userId)
     THEN Set(i, [Me(i) EXCEPT !.pc = "findContracts"])
     ELSE Set(i, [Me(i) EXCEPT !.pc = "done", !.error = USER_NOT_FOUND])
  /\ UNCHANGED <<db, fs, outputPath>>

\* Step 2: all meditations of the user; step 3 when no query is needed
GetUserMeditations(i) ==
  /\ Me(i).pc = "findContracts"
  /\ LET all == OwnedMeditationIds(db, Me(i).userId) IN
       IF all # {} /\ Me(i).anon
       THEN Set(i, [Me(i) EXCEPT !.allUserMeditationIds = all, !.pc = "findPrivate"])
       ELSE Set(i, [Me(i) EXCEPT !.allUserMeditationIds = all,
                                 !.userDeleteMeditationIdsArray = all,
                                 !.pc = AfterFilter(all)])
  /\ UNCHANGED <<db, fs, outputPath>>

\* Step 3: only the private meditations are deleted
FilterPrivateMeditations(i) ==
  /\ Me(i).pc = "findPrivate"
  /\ LET del == PrivateMeditationIds(db, Me(i).allUserMeditationIds) IN
       Set(i, [Me(i) EXCEPT !.userDeleteMeditationIdsArray = del, !.pc = AfterFilter(del)])
  /\ UNCHANGED <<db, fs, outputPath>>

\* Step 4: ElevenLabs file ids of the meditations to delete
GetElevenLabsFileIds(i) ==
  /\ Me(i).pc = "findELContracts"
  /\ LET ids == LinkedAssetIds(db, Me(i).userDeleteMeditationIdsArray) IN
       Set(i, [Me(i) EXCEPT !.elevenLabsFileIdsArray = ids,
                            !.pc = IF ids # {} THEN "findELFiles" ELSE "findMedFiles"])
  /\ UNCHANGED <<db, fs, outputPath>>

\* Step 5: ElevenLabs file paths; step 6: delete the files from the filesystem
DeleteElevenLabsFiles(i) ==
  /\ Me(i).pc = "findELFiles"
  /\ LET paths == {f.fullPath : f \in AssetFilesToDelete(db, Me(i).elevenLabsFileIdsArray)} IN
       \E failing \in SUBSET (paths \cap fs) :
         /\ fs' = UnlinkAll(fs, paths, failing)
         /\ Set(i, [Me(i) EXCEPT !.elevenLabsFilesDeletedCount = UnlinkCount(fs, paths, failing),
                                 !.touched = @ \cup paths,
                                 !.unlinkFailed = @ \cup failing,
                                 !.pc = "findMedFiles"])
  /\ UNCHANGED <<db, outputPath>>

\* Step 7: delete the meditation MP3 files from the filesystem
DeleteMeditationFiles(i) ==
  /\ Me(i).pc = "findMedFiles"
  /\ LET found == MeditationsFound(db, Me(i).userDeleteMeditationIdsArray)
         paths == {MedFullPath(db.meds[m], outputPath) : m \in found} \ {NULL} IN
       \E failing \in SUBSET (paths \cap fs) :
         /\ fs' = UnlinkAll(fs, paths, failing)
         /\ Set(i, [Me(i) EXCEPT !.meditationFilesDeletedCount = UnlinkCount(fs, paths, failing),
                                 !.touched = @ \cup paths,
                                 !.unlinkFailed = @ \cup failing,
                                 !.pc = "begin"])
  /\ UNCHANGED <<db, outputPath>>

\* a transaction of the invocation holds the write lock of the database
InTransaction(i) == inv[i].pc \in TxPcs \cup {"rollback"}

\* sequelize.transaction() resolves; the SQLite store has one writer at a
\* time, so the statements of a transaction run when no other transaction
\* writes, on the rows committed so far
\* variant: the transaction is opened before the meditation files are removed
BeginTransactionEarly(i) ==
  /\ Me(i).pc = "findMedFiles" /\ ~ Me(i).txOpened
  /\ Set(i, [Me(i) EXCEPT !.tx = db, !.txOpened = TRUE])
  /\ UNCHANGED <<db, fs, outputPath>>
BeginTransaction(i) ==
  /\ Me(i).pc = "begin"
  /\ \A j \in Invs \ {i} : ~ InTransaction(j)
  /\ Set(i, [Me(i) EXCEPT !.tx = db, !.txOpened = TRUE,
                          !.pc = FirstTxStep(Me(i).elevenLabsFileIdsArray,
                                             Me(i).userDeleteMeditationIdsArray)])
  /\ UNCHANGED <<db, fs, outputPath>>

\* Step 8: delete the ElevenLabsFiles records
DestroyElevenLabsRecords(i) ==
  /\ Me(i).pc = "destroyEL"
  /\ Set(i, [Me(i) EXCEPT !.tx = DestroyAssets(@, Me(i).elevenLabsFileIdsArray),
                          !.pc = FirstTxStep({}, Me(i).userDeleteMeditationIdsArray)])
  /\ UNCHANGED <<db, fs, outputPath>>

\* Step 9: delete the Meditation records
DestroyMeditationRecords(i) ==
  /\ Me(i).pc = "destroyMed"
  /\ Set(i, [Me(i) EXCEPT
       !.meditationsDeletedCount =
           DestroyMeditationsCount(Me(i).tx, Me(i).userDeleteMeditationIdsArray),
       !.tx = DestroyMeditations(@, Me(i).userDeleteMeditationIdsArray),
       !.pc = "destroyListen"])
  /\ UNCHANGED <<db, fs, outputPath>>

\* Step 10: delete all listen records of the user
DestroyListenRecords(i) ==
  /\ Me(i).pc = "destroyListen"
  /\ Set(i, [Me(i) EXCEPT !.tx = DestroyListens(@, Me(i).userId), !.pc = "destroyQueue"])
  /\ UNCHANGED <<db, fs, outputPath>>

\* Step 11: delete the queue records
DestroyQueueRecords(i) ==
  /\ Me(i).pc = "destroyQueue"
  /\ Set(i, [Me(i) EXCEPT !.tx = DestroyQueue(@, Me(i).userId), !.pc = "userRecord"])
  /\ UNCHANGED <<db, fs, outputPath>>

\* Step 12: convert to the benevolent user, or delete the user
HandleUserRecord(i) ==
  /\ Me(i).pc = "userRecord"
  /\ IF Me(i).anon
     THEN Set(i, [Me(i) EXCEPT !.tx = AnonymizeUser(@, Me(i).userId),
                               !.benevolentUserCreated = TRUE, !.pc = "commit"])
     ELSE Set(i, [Me(i) EXCEPT !.tx = DestroyUser(@, Me(i).userId), !.pc = "commit"])
  /\ UNCHANGED <<db, fs, outputPath>>

\* transaction.commit() resolves and the result is returned
Commit(i) ==
  /\ Me(i).pc = "commit"
  /\ db' = AfterCommit(db, Me(i).tx)
  /\ Set(i, [Me(i) EXCEPT !.pc = "done",
                          !.result = Result(Me(i).userId, Me(i).meditationsDeletedCount,
                                            Me(i).elevenLabsFilesDeletedCount,
                                            Me(i).benevolentUserCreated)])
  /\ UNCHANGED <<fs, outputPath>>

\* a query of the lookup or filesystem stage, or sequelize.transaction(),
\* rejects: nothing catches it
QueryThrows(i) ==
  /\ Me(i).pc \in LookupPcs
  /\ Set(i, [Me(i) EXCEPT !.pc = "done", !.error = QueryError, !.thrownAt = Me(i).pc])
  /\ UNCHANGED <<db, fs, outputPath>>

\* a statement of the transaction (or the commit) rejects: the catch block
\* is entered and issues the rollback
TxStepThrows(i) ==
  /\ Me(i).pc \in TxPcs
  /\ Set(i, [Me(i) EXCEPT !.caught = StepError(Me(i).pc), !.thrownAt = Me(i).pc,
                          !.pc = "rollback"])
  /\ UNCHANGED <<db, fs, outputPath>>

\* transaction.rollback() resolves; the caught error is rethrown
Rollback(i) ==
  /\ Me(i).pc = "rollback"
  /\ db' = AfterRollback(db, Me(i).tx)
  /\ Set(i, [Me(i) EXCEPT !.pc = "done", !.error = Me(i).caught])
  /\ UNCHANGED <<fs, outputPath>>

\* transaction.rollback() rejects inside the catch block
RollbackThrows(i) ==
  /\ Me(i).pc = "rollback"
  /\ Set(i, [Me(i) EXCEPT !.pc = "done", !.error = RollbackError])
  /\ UNCHANGED <<db, fs, outputPath>>

Step(i) ==
  \/ ValidateUser(i)
  \/ GetUserMeditations(i)
  \/ FilterPrivateMeditations(i)
  \/ GetElevenLabsFileIds(i)
  \/ DeleteElevenLabsFiles(i)
  \/ DeleteMeditationFiles(i)
  \/ BeginTransaction(i)
  \/ DestroyElevenLabsRecords(i)
  \/ DestroyMeditationRecords(i)
  \/ DestroyListenRecords(i)
  \/ DestroyQueueRecords(i)
  \/ HandleUserRecord(i)
  \/ Commit(i)
  \/ QueryThrows(i)
  \/ TxStepThrows(i)
  \/ Rollback(i)
  \/ RollbackThrows(i)

\* the ids a request may name: every user id and one id that has no row
RequestIds == UserIds \cup {MaxUsers + 1}

Call(i) == \E userId \in RequestIds, anon \in BOOLEAN : Start(i, userId, anon)

\* one request: a single call of deleteUser, from any initial store
Next == Call(1) \/ Step(1)

Spec == Init /\ [][Next]_vars

\* ------------------------------------- DELETE /admin/users/:userId
\* parseInt(string, 10): leading white space is skipped, a sign is read, then
\* the longest prefix of decimal digits; without a digit the result is NaN
IsDigit(c) == \E k \in DOMAIN Digits : Digits[k] = c
DigitValue(c) == (CHOOSE k \in DOMAIN Digits : Digits[k] = c) - 1

RECURSIVE SkipWhiteSpace(_)
SkipWhiteSpace(str) ==
  IF str # <<>> /\ Head(str) = " " THEN SkipWhiteSpace(Tail(str)) ELSE str

RECURSIVE DigitPrefix(_)
DigitPrefix(str) ==
  IF str = <<>> \/ ~ IsDigit(Head(str)) THEN <<>>
  ELSE <<Head(str)>> \o DigitPrefix(Tail(str))

RECURSIVE DecimalValue(_)
DecimalValue(digits) ==
  IF digits = <<>> THEN 0
  ELSE 10 * DecimalValue(SubSeq(digits, 1, Len(digits) - 1)) + DigitValue(digits[Len(digits)])

ParseInt(str) ==
  LET trimmed == SkipWhiteSpace(str)
      signed == trimmed # <<>> /\ Head(trimmed) \in {"+", "-"}
      digits == DigitPrefix(IF signed THEN Tail(trimmed) ELSE trimmed)
  IN [nan |-> digits = <<>>,
      value |-> IF signed /\ Head(trimmed) = "-" THEN 0 - DecimalValue(digits)
                ELSE DecimalValue(digits)]

IsNaN(n) == n.nan

\* req.body.savePublicMeditationsAsBenevolentUser as the JSON body gives it
BodyValues == {"true", "false", "\"true\"", "undefined"}
\* value === true
StrictlyTrue(value) == value = "true"

\* the :userId segments requests carry: the decimal form of every id a
\* request may name, a word, and a number followed by a letter
RequestParams ==
  {DecimalDigits(u) : u \in RequestIds} \cup {<<"a", "b", "c">>, <<"1", "x">>}

VALIDATION_ERROR == "VALIDATION_ERROR"

\* the AppErrors of the route: the ones thrown as AppError are passed on
\* unchanged, anything else becomes the generic internal error
IsAppError(error) == error \in {USER_NOT_FOUND, VALIDATION_ERROR}

ErrorResponse(error) ==
  IF error = VALIDATION_ERROR
  THEN [NoResponse EXCEPT !.status = 400, !.message = "Invalid user ID"]
  ELSE IF error = USER_NOT_FOUND
  THEN [NoResponse EXCEPT !.status = 404, !.message = "User not found"]
  ELSE [NoResponse EXCEPT !.status = 500, !.message = "Failed to delete user"]

SuccessResponse(result) ==
  [status |-> 200, message |-> "User deleted successfully", hasResult |-> TRUE,
   result |-> result]

\* the handler runs up to its first await: the userId is parsed and either
\* the validation error is answered or deleteUser is called
AdminDeleteUser(i) ==
  /\ Me(i).pc = "idle"
  /\ \E param \in RequestParams, value \in BodyValues :
       LET userId == ParseInt(param) IN
         IF IsNaN(userId)
         THEN Set(i, [IdleInv EXCEPT !.pc = "responded", !.param = param,
                                     !.pre = [db |-> db, fs |-> fs],
                                     !.response = ErrorResponse(VALIDATION_ERROR)])
         ELSE Set(i, [IdleInv EXCEPT !.pc = "findUser", !.param = param,
                                     !.userId = userId.value,
                                     !.anon = StrictlyTrue(value), !.called = TRUE,
                                     !.pre = [db |-> db, fs |-> fs]])
  /\ UNCHANGED <<db, fs, outputPath>>

\* deleteUser has returned or raised: the handler answers
SendResponse(i) ==
  /\ Me(i).pc = "done"
  /\ Set(i, [Me(i) EXCEPT
       !.pc = "responded",
       !.response = IF Me(i).error = NULL THEN SuccessResponse(Me(i).result)
                    ELSE IF IsAppError(Me(i).error) THEN ErrorResponse(Me(i).error)
                    ELSE ErrorResponse("INTERNAL_ERROR")])
  /\ UNCHANGED <<db, fs, outputPath>>

\* The store before the request: as in Init, with every file on disk
\* and every meditation with a stored directory.
InitAdmin ==
  /\ \E vis \in [MedIds -> {"public", "private"}], lastOwner \in UserIds :
       db = InitDb([m \in MedIds |-> IF m = MaxMeds THEN lastOwner ELSE 1], vis,
                   [m \in MedIds |-> "stored"], OwnLinks)
  /\ outputPath = PATH_MP3_OUTPUT
  /\ fs = InitFiles(db) \cup {SoundFilePath}
  /\ inv = [i \in Invs |-> IdleInv]

\* one request of an administrator
NextAdmin == AdminDeleteUser(1) \/ Step(1) \/ SendResponse(1)

SpecAdmin == InitAdmin /\ [][NextAdmin]_vars

\* ------------------------------------------------ deleteUser as a whole
\* the store a call leaves when every await resolves, from its steps 2-12
WholeCallDb(d, userId, anon) ==
  LET all == OwnedMeditationIds(d, userId)
      del == IF anon THEN PrivateMeditationIds(d, all) ELSE all
      afterMeds == DestroyMeditations(DestroyAssets(d, LinkedAssetIds(d, del)), del)
      afterQueue == DestroyQueue(DestroyListens(afterMeds, userId), userId)
  IN IF anon THEN AnonymizeUser(afterQueue, userId) ELSE DestroyUser(afterQueue, userId)

\* the disk a call leaves when every await resolves and no unlink throws
WholeCallFs(d, files, envOutputPath, userId, anon) ==
  LET all == OwnedMeditationIds(d, userId)
      del == IF anon THEN PrivateMeditationIds(d, all) ELSE all
      assetPaths == {f.fullPath : f \in AssetFilesToDelete(d, LinkedAssetIds(d, del))}
      medPaths == {MedFullPath(d.meds[m], envOutputPath) : m \in MeditationsFound(d, del)}
  IN UnlinkAll(UnlinkAll(files, assetPaths, {}), medPaths \ {NULL}, {})

\* ------------------------------------------------ one call after another
\* deleteUser is called again for the same user once the first call has
\* returned or raised; the first call runs in slot 1, the second in slot 2
SecondCall ==
  /\ inv[1].pc = "done"
  /\ \E anon \in BOOLEAN : Start(2, inv[1].userId, anon)

\* The store before the first call: the first meditation is private, the
\* others are public; user 1 owns every meditation but the last, whose owner
\* varies; every file is on disk.
InitSeq ==
  /\ \E lastOwner \in UserIds :
       db = InitDb([m \in MedIds |-> IF m = MaxMeds THEN lastOwner ELSE 1],
                   [m \in MedIds |-> IF m = 1 THEN "private" ELSE "public"],
                   [m \in MedIds |-> "stored"], OwnLinks)
  /\ outputPath = PATH_MP3_OUTPUT
  /\ fs = InitFiles(db) \cup {SoundFilePath}
  /\ inv = [i \in Invs |-> IdleInv]

NextSeq == Call(1) \/ Step(1) \/ SecondCall \/ Step(2)

SpecSeq == InitSeq /\ [][NextSeq]_vars

\* ------------------------------------------------- two calls at a time
\* a second request to delete the same user arrives while the first call
\* is running; the awaits of the two calls interleave
ConcurrentCall ==
  /\ inv[1].pc \notin {"idle", "done"}
  /\ \E anon \in BOOLEAN : Start(2, inv[1].userId, anon)

\* The store before the calls: user 1 owns the private first meditation and
\* the public second one, the last user owns the further public ones; every
\* file is on disk.
InitConc ==
  /\ db = InitDb([m \in MedIds |-> IF m <= 2 THEN 1 ELSE MaxUsers],
                 [m \in MedIds |-> IF m = 1 THEN "private" ELSE "public"],
                 [m \in MedIds |-> "stored"], OwnLinks)
  /\ outputPath = PATH_MP3_OUTPUT
  /\ fs = InitFiles(db) \cup {SoundFilePath}
  /\ inv = [i \in Invs |-> IdleInv]

NextConc == Call(1) \/ Step(1) \/ ConcurrentCall \/ Step(2)

SpecConc == InitConc /\ [][NextConc]_vars

\* ----------------------------------------- PATCH /meditations/update/:id
\* The handler has verified the ownership row of the requesting user and
\* found the meditation; meditation.update({visibility}) resolves.  It is a
\* write of its own, outside any transaction of deleteUser.
UpdateVisibility(d, m, visibility) == [d EXCEPT !.meds[m].visibility = visibility]

PatchMeditation ==
  /\ \A j \in Invs : ~ InTransaction(j)
  /\ \E c \in db.owns, visibility \in {"public", "private"} :
       /\ c[2] \in DOMAIN db.meds
       /\ db.meds[c[2]].visibility # visibility
       /\ db' = UpdateVisibility(db, c[2], visibility)
  /\ UNCHANGED <<fs, outputPath, inv>>

\* one call of deleteUser while the owners edit their meditations
NextPatch == Call(1) \/ Step(1) \/ PatchMeditation

SpecPatch == InitSeq /\ [][NextPatch]_vars

\* ------------------------------------------ checkUserHasPublicMeditations
\* the ownership rows of the user are read, then the public meditations
\* among their ids are counted
CheckUserHasPublicMeditations(d, userId) ==
  LET meditationIds == {c[2] : c \in {x \in d.owns : x[1] = userId}} IN
    IF meditationIds = {} THEN FALSE
    ELSE Cardinality({m \in meditationIds \cap DOMAIN d.meds :
                        d.meds[m].visibility = "public"}) > 0

\* ------------------------------------------------------- adminMiddleware
\* What the admin check does with a request whose token names userId, once
\* User.findByPk has resolved: it calls next() or passes an AppError on.
\* variant: the isAdmin flag of the row is not looked at
AdminMiddlewareAnyUser(d, userId) ==
  IF userId \notin DOMAIN d.users
  THEN [next |-> FALSE, status |-> 401, message |-> "User not found"]
  ELSE [next |-> TRUE, status |-> 0, message |-> ""]
AdminMiddleware(d, userId) ==
  IF userId \notin DOMAIN d.users
  THEN [next |-> FALSE, status |-> 401, message |-> "User not found"]
  ELSE IF ~ d.users[userId].isAdmin
  THEN [next |-> FALSE, status |-> 403, message |-> "Admin access required"]
  ELSE [next |-> TRUE, status |-> 0, message |-> ""]

\* ------------------------------------------------------------ properties
Done(i) == inv[i].pc = "done"
Succeeded(i) == Done(i) /\ inv[i].error = NULL
Raised(i) == Done(i) /\ inv[i].error # NULL

\* the store and the disk when the call started
Pre(i) == inv[i].pre

UserExisted(i) == inv[i].userId \in DOMAIN Pre(i).db.users
OwnedBefore(i) == {c[2] : c \in {x \in Pre(i).db.owns : x[1] = inv[i].userId}}
PrivateBefore(i) == {m \in OwnedBefore(i) : Pre(i).db.meds[m].visibility = "private"}
PublicBefore(i) == OwnedBefore(i) \ PrivateBefore(i)
TargetBefore(i) == IF inv[i].anon THEN PrivateBefore(i) ELSE OwnedBefore(i)

\* where the output file of a meditation row lies on disk
OutputFile(row) == MedFullPath(row, PATH_MP3_OUTPUT)
AssetPathsBefore(i) == {AssetFullPath(Pre(i).db.assets[a]) : a \in DOMAIN Pre(i).db.assets}

NoRowsOfUser(d, userId) ==
  /\ \A l \in d.listens : l.userId # userId
  /\ \A q \in d.queue : q.userId # userId

Anonymized(d, userId) ==
  /\ userId \in DOMAIN d.users
  /\ Text(d.users[userId].email) = "BenevolentUser" \o ToString(userId) \o "@go-lightly.love"
  /\ d.users[userId].isAdmin = FALSE

\* C1: when a statement of the transaction (or its commit) has failed and
\* deleteUser has raised, the store equals the store before the call, for
\* either value of the anonymize flag.
C1_RolledBackStoreUnchanged ==
  \A i \in Invs : (Done(i) /\ inv[i].caught # NULL) => db = Pre(i).db

\* the queue-record deletion failed after the working copy of the
\* transaction had already lost rows
C1_Witness ==
  \E i \in Invs :
    /\ Raised(i)
    /\ inv[i].caught = StepError("destroyQueue")
    /\ DOMAIN inv[i].tx.assets # DOMAIN Pre(i).db.assets
    /\ DOMAIN inv[i].tx.meds # DOMAIN Pre(i).db.meds
    /\ inv[i].tx.listens # Pre(i).db.listens

\* C2: after a successful return the user row is absent (anonymize = false)
\* or present with the synthetic e-mail and isAdmin = false (anonymize = true).
C2_UserTerminalState ==
  \A i \in Invs :
    Succeeded(i) =>
      IF inv[i].anon THEN Anonymized(db, inv[i].userId)
      ELSE inv[i].userId \notin DOMAIN db.users

\* an administrator has been anonymized
C2_Witness ==
  \E i \in Invs :
    /\ Succeeded(i) /\ inv[i].anon
    /\ Pre(i).db.users[inv[i].userId].isAdmin
    /\ Anonymized(db, inv[i].userId)

\* C3: a successful anonymizing call deletes exactly the private meditations
\* of the user and reports their number; the public ones keep their row
\* (visibility, filePath, filename) and their output file stays on disk; the
\* user is anonymized also when there is no public meditation.
C3_AnonymizeDeletesExactlyPrivate ==
  \A i \in Invs :
    (Succeeded(i) /\ inv[i].anon) =>
      /\ DOMAIN Pre(i).db.meds \ DOMAIN db.meds = PrivateBefore(i)
      /\ inv[i].result.meditationsDeleted = Cardinality(PrivateBefore(i))
      /\ \A m \in PublicBefore(i) :
           /\ m \in DOMAIN db.meds
           /\ db.meds[m] = Pre(i).db.meds[m]
           /\ OutputFile(db.meds[m]) \in Pre(i).fs => OutputFile(db.meds[m]) \in fs
      /\ Anonymized(db, inv[i].userId)

\* a user with a private and a public meditation, both with a file on disk
C3_Witness ==
  \E i \in Invs :
    /\ Succeeded(i) /\ inv[i].anon
    /\ PrivateBefore(i) # {} /\ PublicBefore(i) # {}
    /\ \E m \in PublicBefore(i) : OutputFile(db.meds[m]) \in fs
    /\ \E m \in PrivateBefore(i) : OutputFile(Pre(i).db.meds[m]) \in Pre(i).fs \ fs

\* C4: with anonymize = true an ElevenLabs file record or its file is removed
\* only if no meditation that survives the call was associated with it.
C4_SharedAssetsSurvive ==
  \A i \in Invs :
    (Succeeded(i) /\ inv[i].anon) =>
      \A a \in DOMAIN Pre(i).db.assets :
        (\/ a \notin DOMAIN db.assets
         \/ AssetFullPath(Pre(i).db.assets[a]) \in Pre(i).fs \ fs)
        => ~ \E m \in DOMAIN db.meds : <<m, a>> \in Pre(i).db.medAssets

\* C5: a userId without a user row raises UserNotFound at the first step:
\* the call never gets past the user lookup, no file is checked or unlinked,
\* no transaction is opened and the store and the disk are unchanged.
C5_UserNotFoundFirst ==
  \A i \in Invs :
    (inv[i].pc # "idle" /\ ~ UserExisted(i)) =>
      /\ inv[i].pc \in {"findUser", "done"}
      /\ inv[i].touched = {} /\ ~ inv[i].txOpened
      /\ db = Pre(i).db /\ fs = Pre(i).fs
      /\ Done(i) => inv[i].error \in {USER_NOT_FOUND, QueryError}
      /\ inv[i].error = USER_NOT_FOUND =>
           (Done(i) /\ inv[i].result = NoResult)

C5_Witness ==
  \E i \in Invs : Done(i) /\ ~ UserExisted(i) /\ inv[i].error = USER_NOT_FOUND

\* C6: when a statement of the transaction throws, the caller receives the
\* error that statement raised, also when the rollback does not succeed.
C6_ErrorPropagatesUnchanged ==
  \A i \in Invs : (Done(i) /\ inv[i].caught # NULL) => inv[i].error = inv[i].caught

\* C7: after a successful call no listen record and no queue record of the
\* user remains, for both values of anonymize.
C7_NoListenNoQueueOfUser ==
  \A i \in Invs : Succeeded(i) => NoRowsOfUser(db, inv[i].userId)

\* the user had a listen record on a public meditation that was preserved
C7_Witness ==
  \E i \in Invs :
    /\ Succeeded(i) /\ inv[i].anon
    /\ \E l \in Pre(i).db.listens :
         /\ l.userId = inv[i].userId
         /\ l.meditationId \in PublicBefore(i) \cap DOMAIN db.meds
    /\ \E q \in Pre(i).db.queue : q.userId = inv[i].userId

\* C8: with anonymize = false no meditation the user owned at the start
\* exists after a successful call, and meditationsDeleted is their number.
C8_DeleteAllOwned ==
  \A i \in Invs :
    (Succeeded(i) /\ ~ inv[i].anon) =>
      /\ OwnedBefore(i) \cap DOMAIN db.meds = {}
      /\ inv[i].result.meditationsDeleted = Cardinality(OwnedBefore(i))

\* the user owned a public and a private meditation
C8_Witness ==
  \E i \in Invs :
    /\ Succeeded(i) /\ ~ inv[i].anon
    /\ PrivateBefore(i) # {} /\ PublicBefore(i) # {}
    /\ inv[i].result.meditationsDeleted = 2

\* C9: the result carries the input userId, the number of meditation rows
\* the transaction destroyed, the number of ElevenLabs files that were on
\* disk and were unlinked by the call, and the anonymize flag.
C9_ResultFields ==
  \A i \in Invs :
    Succeeded(i) =>
      /\ inv[i].result.userId = inv[i].userId
      /\ inv[i].result.meditationsDeleted =
           Cardinality(DOMAIN Pre(i).db.meds \ DOMAIN db.meds)
      /\ inv[i].result.elevenLabsFilesDeleted =
           Cardinality(AssetPathsBefore(i) \cap (Pre(i).fs \ fs))
      /\ inv[i].result.benevolentUserCreated = inv[i].anon

\* of two ElevenLabs files of the deleted meditations one was unlinked and
\* the other was already missing or could not be unlinked
C9_Witness ==
  \E i \in Invs :
    /\ Succeeded(i)
    /\ Cardinality(inv[i].elevenLabsFileIdsArray) = 2
    /\ inv[i].result.elevenLabsFilesDeleted = 1
    /\ inv[i].result.meditationsDeleted >= 1

\* C10: with an empty deletion target a successful call reports zero
\* meditations and zero ElevenLabs files, removes the listen and queue rows
\* of the user and deletes the user (anonymize = false) or anonymizes it with
\* benevolentUserCreated = true (anonymize = true).
C10_EmptyTargetStillResolvesUser ==
  \A i \in Invs :
    (Done(i) /\ UserExisted(i) /\ TargetBefore(i) = {}) =>
      /\ inv[i].error \in {NULL, QueryError, RollbackError}
           \cup {StepError(pc) : pc \in {"destroyListen", "destroyQueue", "userRecord", "commit"}}
      /\ Succeeded(i) =>
           /\ inv[i].result.meditationsDeleted = 0
           /\ inv[i].result.elevenLabsFilesDeleted = 0
           /\ NoRowsOfUser(db, inv[i].userId)
           /\ inv[i].result.benevolentUserCreated = inv[i].anon
           /\ IF inv[i].anon THEN Anonymized(db, inv[i].userId)
              ELSE inv[i].userId \notin DOMAIN db.users
           /\ db.meds = Pre(i).db.meds /\ fs = Pre(i).fs

\* a user with public meditations only has been anonymized
C10_Witness ==
  \E i \in Invs :
    /\ Succeeded(i) /\ inv[i].anon
    /\ OwnedBefore(i) # {} /\ PrivateBefore(i) = {}
    /\ inv[i].result.benevolentUserCreated
    /\ Pre(i).db.users[inv[i].userId].email # db.users[inv[i].userId].email

\* C11: the e-mail a successful anonymizing call leaves on the user row is
\* exactly "BenevolentUser", the decimal userId and "@go-lightly.love", a
\* function of the userId alone (42 gives BenevolentUser42@go-lightly.love),
\* and isAdmin is false afterwards whether it was true or false before.
C11_BenevolentEmailExact ==
  \A i \in Invs :
    (Succeeded(i) /\ inv[i].anon) =>
      /\ Text(db.users[inv[i].userId].email) =
           "BenevolentUser" \o ToString(inv[i].userId) \o "@go-lightly.love"
      /\ db.users[inv[i].userId].isAdmin = FALSE
      /\ Text(BenevolentEmail(42)) = "BenevolentUser42@go-lightly.love"

\* user 2, who was no administrator, has been anonymized
C11_Witness ==
  \E i \in Invs :
    /\ Succeeded(i) /\ inv[i].anon /\ inv[i].userId = 2
    /\ ~ Pre(i).db.users[2].isAdmin
    /\ Text(Pre(i).db.users[2].email) = "user2@x.io"
    /\ Text(db.users[2].email) = "BenevolentUser2@go-lightly.love"
    /\ ~ db.users[2].isAdmin

\* the fields of a user row the anonymization does not write
KeptUserFields(row) == DOMAIN row \ {"email", "isAdmin"}

TargetAssetPaths(i) ==
  {AssetFullPath(Pre(i).db.assets[c[2]]) :
     c \in {x \in Pre(i).db.medAssets : x[1] \in TargetBefore(i)}}
TargetOutputPaths(i) ==
  {MedFullPath(Pre(i).db.meds[m], outputPath) : m \in TargetBefore(i)} \ {NULL}

\* the call has left the filesystem cleanup
PastFileCleanup(i) == inv[i].pc = "begin" \/ inv[i].txOpened

\* C13: no file-level condition aborts a file loop or raises: once the call
\* has left the filesystem cleanup every targeted path was visited, whether
\* its file was on disk, was already missing or could not be unlinked; every
\* file that was on disk and whose unlink did not throw is gone; and a call
\* that raised before the transaction raised a query error, never a file
\* error.
C13_FileErrorsNeverAbort ==
  \A i \in Invs :
    /\ PastFileCleanup(i) =>
         /\ inv[i].touched = TargetAssetPaths(i) \cup TargetOutputPaths(i)
         /\ inv[i].unlinkFailed \subseteq inv[i].touched \cap fs
         /\ fs = Pre(i).fs \ (inv[i].touched \ inv[i].unlinkFailed)
    /\ (Raised(i) /\ ~ inv[i].txOpened) => inv[i].error \in {USER_NOT_FOUND, QueryError}

\* the call reached sequelize.transaction() after a loop met a missing
\* file, an unlink that threw and a file it removed
C13_Witness ==
  \E i \in Invs :
    /\ inv[i].pc = "begin"
    /\ inv[i].touched \ Pre(i).fs # {}
    /\ inv[i].unlinkFailed # {}
    /\ Pre(i).fs \ fs # {}

\* C14: once the lookup stage has completed, no failure of the filesystem
\* cleanup stage, the meditation query of step 7 included, makes deleteUser
\* raise: a call that raised did not fail in the query of step 7.
C14_FileStageNeverRaises ==
  \A i \in Invs : Raised(i) => inv[i].thrownAt # "findMedFiles"

\* C15: every file existence check and unlink happens before the transaction
\* is opened and before any row of the store is deleted or updated; once the
\* transaction is open the disk never changes again, rollback included, so a
\* call that fails in the transaction can leave files removed while all
\* their records remain.
C15_FilesBeforeTransaction ==
  [][\A i \in Invs :
       /\ inv'[i].touched # inv[i].touched =>
            /\ ~ inv[i].txOpened /\ ~ inv'[i].txOpened
            /\ db = Pre(i).db /\ db' = db
       /\ inv[i].txOpened => fs' = fs
       /\ fs' # fs => \E j \in Invs : inv'[j].touched # inv[j].touched]_vars

\* a statement of the transaction failed and the rollback ran: the files
\* of the call are gone, the store is the one of before
C15_Witness ==
  \E i \in Invs :
    /\ Raised(i) /\ inv[i].caught # NULL /\ inv[i].error = inv[i].caught
    /\ TargetAssetPaths(i) \cap (Pre(i).fs \ fs) # {}
    /\ TargetOutputPaths(i) \cap (Pre(i).fs \ fs) # {}
    /\ db = Pre(i).db

\* what the statements of the transaction have done to its working copy
TargetAssetIds(i) ==
  {c[2] : c \in {x \in Pre(i).db.medAssets : x[1] \in TargetBefore(i)}}
AssetsDestroyed(i) == TargetAssetIds(i) \cap DOMAIN inv[i].tx.assets = {}
MeditationsDestroyed(i) == TargetBefore(i) \cap DOMAIN inv[i].tx.meds = {}
ListensDestroyed(i) == \A l \in inv[i].tx.listens : l.userId # inv[i].userId
QueueDestroyed(i) == \A q \in inv[i].tx.queue : q.userId # inv[i].userId
UserWritten(i) == inv[i].tx.users # Pre(i).db.users

\* C16: inside the transaction the writes come in the order ElevenLabs file
\* records, meditation records, listen records, queue records, user record,
\* commit: whenever a table has been written, the tables before it in that
\* order have been dealt with; in particular the user row is not deleted or
\* updated before the listen and queue deletes ran, and the store changes
\* only at the commit, after the user record.
C16_TransactionOrder ==
  \A i \in Invs :
    inv[i].txOpened =>
      /\ DOMAIN inv[i].tx.meds # DOMAIN Pre(i).db.meds => AssetsDestroyed(i)
      /\ inv[i].tx.listens # Pre(i).db.listens =>
           (AssetsDestroyed(i) /\ MeditationsDestroyed(i))
      /\ inv[i].tx.queue # Pre(i).db.queue =>
           (AssetsDestroyed(i) /\ MeditationsDestroyed(i) /\ ListensDestroyed(i))
      /\ UserWritten(i) =>
           /\ AssetsDestroyed(i) /\ MeditationsDestroyed(i)
           /\ ListensDestroyed(i) /\ QueueDestroyed(i)
      /\ db # Pre(i).db => (Succeeded(i) /\ UserWritten(i) /\ db = inv[i].tx)

\* the commit is about to be issued: all five tables have been written in
\* the working copy, the store itself is still untouched
C16_Witness ==
  \E i \in Invs :
    /\ inv[i].pc = "commit"
    /\ DOMAIN inv[i].tx.assets # DOMAIN Pre(i).db.assets
    /\ DOMAIN inv[i].tx.meds # DOMAIN Pre(i).db.meds
    /\ inv[i].tx.listens # Pre(i).db.listens
    /\ inv[i].tx.queue # Pre(i).db.queue
    /\ UserWritten(i)
    /\ db = Pre(i).db

\* C17: deleteUser never deletes a sound file: at every point of a call, of
\* either flag value, succeeding or failing, the store and the working copy
\* of the transaction hold every sound-file record of before and the sound
\* file is still on disk; of the sound-file link rows only those of deleted
\* meditations disappear.
C17_SoundFilesKept ==
  \A i \in Invs :
    inv[i].pc # "idle" =>
      /\ db.sounds = Pre(i).db.sounds
      /\ inv[i].txOpened => inv[i].tx.sounds = Pre(i).db.sounds
      /\ SoundFilePath \in Pre(i).fs => SoundFilePath \in fs
      /\ db.medSounds = {c \in Pre(i).db.medSounds : c[1] \in DOMAIN db.meds}

\* a meditation that used the sound file was deleted with its link row
C17_Witness ==
  \E i \in Invs :
    /\ Succeeded(i)
    /\ Pre(i).db.medSounds \ db.medSounds # {}
    /\ db.sounds # {} /\ db.sounds = Pre(i).db.sounds
    /\ SoundFilePath \in fs

\* the meditations the call removed
RemovedMeditations(i) == DOMAIN Pre(i).db.meds \ DOMAIN db.meds

IsNumber(param) == param # <<>> /\ \A k \in DOMAIN param : IsDigit(param[k])

\* C19: the endpoint answers 400 when the userId is not a number, without
\* calling deleteUser; 200 with the four fields of the result when deleteUser
\* succeeds; 404 when the user does not exist; 500 with the message "Failed
\* to delete user" for any other failure; and no answer but 200 carries
\* result counts.
C19_EndpointResponses ==
  \A i \in Invs :
    inv[i].pc = "responded" =>
      /\ ~ IsNumber(inv[i].param) =>
           (inv[i].response.status = 400 /\ ~ inv[i].called)
      /\ (inv[i].called /\ inv[i].error = NULL) =>
           /\ inv[i].response.status = 200
           /\ inv[i].response.hasResult
           /\ inv[i].response.result = inv[i].result
      /\ (inv[i].called /\ inv[i].error = USER_NOT_FOUND) =>
           inv[i].response.status = 404
      /\ (inv[i].called /\ inv[i].error \notin {NULL, USER_NOT_FOUND}) =>
           /\ inv[i].response.status = 500
           /\ inv[i].response.message = "Failed to delete user"
      /\ inv[i].response.status # 200 =>
           (~ inv[i].response.hasResult /\ inv[i].response.result = NoResult)

\* C20: in every reachable state the e-mails of the user rows are pairwise
\* different and each is case-normalized (equal to its lower-case form),
\* also after deleteUser has anonymized a user.
C20_EmailsUniqueAndNormalized ==
  \A u \in DOMAIN db.users :
    /\ \A v \in DOMAIN db.users : u # v => db.users[u].email # db.users[v].email
    /\ db.users[u].email = ToLowerCase(db.users[u].email)

\* C21: a deleted or anonymized user cannot retain admin access: once
\* deleteUser(u, true) has succeeded the admin check answers a request
\* authenticated as u with 403, and once deleteUser(u, false) has succeeded
\* it answers with 401; next() is not called in either case.
C21_NoAdminAccessAfterwards ==
  \A i \in Invs :
    Succeeded(i) =>
      /\ ~ AdminMiddleware(db, inv[i].userId).next
      /\ AdminMiddleware(db, inv[i].userId).status = IF inv[i].anon THEN 403 ELSE 401

\* an administrator who passed the admin check before the call was
\* anonymized and is now answered with 403
C21_Witness ==
  \E i \in Invs :
    /\ Succeeded(i) /\ inv[i].anon
    /\ AdminMiddleware(Pre(i).db, inv[i].userId).next
    /\ AdminMiddleware(db, inv[i].userId).status = 403
    /\ AdminMiddleware(db, inv[i].userId).message = "Admin access required"

RetrySucceeded ==
  /\ Raised(1) /\ inv[1].caught # NULL
  /\ Succeeded(2) /\ inv[2].anon = inv[1].anon /\ inv[2].unlinkFailed = {}

\* C23: a retry after a call that failed in the transaction converges: the
\* second call succeeds with the store and the disk a single successful call
\* from the original state leaves (a successful first call without failing
\* unlink leaves that state, too), it reports all content items deleted, and
\* only its count of ElevenLabs files may be smaller, by the files the
\* failed call had removed.
C23_RetryConverges ==
  /\ (Succeeded(1) /\ inv[1].unlinkFailed = {} /\ inv[2].pc = "idle") =>
       /\ db = WholeCallDb(Pre(1).db, inv[1].userId, inv[1].anon)
       /\ fs = WholeCallFs(Pre(1).db, Pre(1).fs, outputPath, inv[1].userId, inv[1].anon)
  /\ RetrySucceeded =>
       /\ Pre(2).db = Pre(1).db
       /\ db = WholeCallDb(Pre(1).db, inv[1].userId, inv[1].anon)
       /\ fs = WholeCallFs(Pre(1).db, Pre(1).fs, outputPath, inv[1].userId, inv[1].anon)
       /\ inv[2].result.meditationsDeleted = Cardinality(TargetBefore(1))
       /\ inv[2].result.elevenLabsFilesDeleted =
            Cardinality(TargetAssetPaths(1) \cap Pre(2).fs)
       /\ inv[2].result.elevenLabsFilesDeleted <=
            Cardinality(TargetAssetPaths(1) \cap Pre(1).fs)

\* the failed call had removed one ElevenLabs file and could not unlink
\* another; the retry removed that one and reports 1 instead of 2
C23_Witness ==
  /\ RetrySucceeded
  /\ inv[1].caught = StepError("commit")
  /\ Cardinality(TargetAssetPaths(1) \cap Pre(1).fs) = 2
  /\ inv[1].unlinkFailed \cap TargetAssetPaths(1) # {}
  /\ inv[2].result.elevenLabsFilesDeleted = 1
  /\ inv[2].result.meditationsDeleted = 2
  /\ inv[1].userId \notin DOMAIN db.users

C25_BenevolentResultMeansRow ==
  [][\A i \in Invs :
       (inv[i].pc = "commit" /\ inv'[i].pc = "done" /\ inv'[i].error = NULL
          /\ inv'[i].result.benevolentUserCreated)
       => Anonymized(db', inv[i].userId)]_vars

\* C26: for two concurrent calls for the same user nothing is counted twice:
\* the two elevenLabsFilesDeleted values sum to at most the number of
\* ElevenLabs files that were on disk, and the two meditationsDeleted values
\* to at most the number of meditations the user owned.
C26_NothingCountedTwice ==
  inv[2].pc # "idle" =>
    /\ inv[1].result.elevenLabsFilesDeleted + inv[2].result.elevenLabsFilesDeleted
         <= Cardinality(AssetPathsBefore(1) \cap Pre(1).fs)
    /\ inv[1].elevenLabsFilesDeletedCount + inv[2].elevenLabsFilesDeletedCount
         <= Cardinality(AssetPathsBefore(1) \cap (Pre(1).fs \ fs))
    /\ inv[1].result.meditationsDeleted + inv[2].result.meditationsDeleted
         <= Cardinality(OwnedBefore(1))

\* both calls had resolved the same two meditations and their ElevenLabs
\* files before either transaction; one reports 2 and 2, the other 0 and 0
C26_Witness ==
  /\ Succeeded(1) /\ Succeeded(2)
  /\ Pre(2).db = Pre(1).db
  /\ Cardinality(inv[1].userDeleteMeditationIdsArray) = 2
  /\ inv[2].userDeleteMeditationIdsArray = inv[1].userDeleteMeditationIdsArray
  /\ Cardinality(inv[2].elevenLabsFileIdsArray) = 2
  /\ inv[1].result.meditationsDeleted + inv[2].result.meditationsDeleted = 2
  /\ inv[1].result.elevenLabsFilesDeleted + inv[2].result.elevenLabsFilesDeleted = 2
  /\ inv[2].result.meditationsDeleted = 0

\* C27: a meditation that is public at the moment the transaction of
\* deleteUser(u, true) commits is not deleted by that call, also when its
\* owner changes the visibility between the lookup stage and the
\* transaction.
C27_PublicAtCommitSurvives ==
  [][\A i \in Invs :
       (inv[i].pc = "commit" /\ inv'[i].pc = "done" /\ inv'[i].error = NULL
          /\ inv[i].anon)
       => \A m \in DOMAIN db.meds :
            db.meds[m].visibility = "public" => m \in DOMAIN db'.meds]_vars

NotOwnedBefore(i) == DOMAIN Pre(i).db.meds \ OwnedBefore(i)

\* C29: a call for user u leaves the data of the other users unchanged, at
\* every point of the call, whether it succeeds or fails: the user row and
\* the queue rows of every other user, their listen records on surviving
\* meditations, and the row and the output file of every meditation u does
\* not own.
C29_OtherUsersUnchanged ==
  \A i \in Invs :
    inv[i].pc # "idle" =>
      /\ \A v \in DOMAIN Pre(i).db.users \ {inv[i].userId} :
           /\ v \in DOMAIN db.users /\ db.users[v] = Pre(i).db.users[v]
           /\ {q \in db.queue : q.userId = v} = {q \in Pre(i).db.queue : q.userId = v}
           /\ {l \in db.listens : l.userId = v /\ l.meditationId \in DOMAIN db.meds}
                = {l \in Pre(i).db.listens : l.userId = v /\ l.meditationId \in DOMAIN db.meds}
      /\ \A m \in NotOwnedBefore(i) :
           /\ m \in DOMAIN db.meds /\ db.meds[m] = Pre(i).db.meds[m]
           /\ OutputFile(db.meds[m]) \in Pre(i).fs => OutputFile(db.meds[m]) \in fs

\* user 1 was deleted with a meditation; the other user still has the user
\* row, a queue row, a listen record on the own meditation, and the file
C29_Witness ==
  \E i \in Invs :
    /\ Succeeded(i) /\ ~ inv[i].anon /\ OwnedBefore(i) # {}
    /\ inv[i].userId \notin DOMAIN db.users
    /\ \E v \in DOMAIN db.users, m \in NotOwnedBefore(i) :
         /\ <<v, m>> \in db.owns
         /\ OutputFile(db.meds[m]) \in fs
         /\ \E q \in db.queue : q.userId = v
         /\ \E l \in db.listens : l.userId = v /\ l.meditationId = m

\* C30: anonymization preserves the ownership of the public meditations:
\* after a successful deleteUser(u, true) every public meditation of u is
\* still linked to u and checkUserHasPublicMeditations(u) gives what it
\* gave before; after a successful deleteUser(u, false) it gives false.
C30_PublicOwnershipPreserved ==
  \A i \in Invs :
    Succeeded(i) =>
      IF inv[i].anon
      THEN /\ \A m \in PublicBefore(i) : <<inv[i].userId, m>> \in db.owns
           /\ CheckUserHasPublicMeditations(db, inv[i].userId)
                = CheckUserHasPublicMeditations(Pre(i).db, inv[i].userId)
      ELSE ~ CheckUserHasPublicMeditations(db, inv[i].userId)

\* a user with a private and a public meditation was anonymized and still
\* has public meditations
C30_Witness ==
  \E i \in Invs :
    /\ Succeeded(i) /\ inv[i].anon
    /\ PrivateBefore(i) # {} /\ PrivateBefore(i) \cap DOMAIN db.meds = {}
    /\ CheckUserHasPublicMeditations(Pre(i).db, inv[i].userId)
    /\ CheckUserHasPublicMeditations(db, inv[i].userId)

====
